---- MODULE Spec2Model ----
(***************************************************************************)
(* Model of the device memory context of mwa_hyperdrive's CUDA sky-model   *)
(* code (init_model / copy_vis / clear_vis / destroy) and of the Jones     *)
(* matrix helper apply_beam.                                               *)
(*                                                                         *)
(* A JonesF32 cell of the visibility buffer is abstracted to one integer   *)
(* (0 stands for the all-zero matrix).  C `int` is 32 bits and `size_t` is *)
(* 64 bits; values that do not fit a model-checker integer are carried as  *)
(* little-endian base-256 digit sequences, so products and wrap-around are *)
(* computed exactly.                                                       *)
(***************************************************************************)
EXTENDS Integers, Sequences, FiniteSets, TLC

VARIABLES phase, args, a, sizes, heap, d_vis_data, host_vis, frees, last, prev,
          j1, j, j2, beam_in, beam_pc

lifevars == <<phase, args, a, sizes, heap, d_vis_data, host_vis, frees, last, prev>>
beamvars == <<j1, j, j2, beam_in, beam_pc>>
vars == <<phase, args, a, sizes, heap, d_vis_data, host_vis, frees, last, prev,
          j1, j, j2, beam_in, beam_pc>>

\* ------------------------------------------------------------------ bounds
\* Largest number of visibility cells whose contents are tracked.
MaxCells == 2
\* Cell values are 0..MaxCellVal.
MaxCellVal == 1
\* Device memory, in GiB: a cudaMalloc of more than this fails.
DeviceGiB == 40
\* Real and imaginary parts of the probe scalars of the apply_beam check.
MaxC == 1

\* --------------------------------------------------------- program constants
\* sizeof(FLOAT): double precision unless SINGLE is defined.
SizeofFLOAT == 8
\* sizeof(UVW): three FLOATs (u, v, w).
SizeofUVW == 24
\* sizeof(JonesF32): eight floats (j00_re .. j11_im).
SizeofJonesF32 == 32

NULL == 0

\* ------------------------------------------------- exact integer arithmetic
RECURSIVE NatToDigits(_)
NatToDigits(n) ==
    IF n = 0 THEN << >> ELSE <<n % 256>> \o NatToDigits(n \div 256)

RECURSIVE Normalize(_)
Normalize(d) ==
    IF d = << >> THEN d
    ELSE IF d[Len(d)] = 0 THEN Normalize(SubSeq(d, 1, Len(d) - 1)) ELSE d

RECURSIVE AddDigits(_, _, _)
AddDigits(x, y, c) ==
    IF x = << >> /\ y = << >> THEN (IF c = 0 THEN << >> ELSE <<c>>)
    ELSE LET xd == IF x = << >> THEN 0 ELSE Head(x)
             yd == IF y = << >> THEN 0 ELSE Head(y)
             s  == xd + yd + c
         IN  <<s % 256>> \o AddDigits(IF x = << >> THEN x ELSE Tail(x),
                                      IF y = << >> THEN y ELSE Tail(y),
                                      s \div 256)

RECURSIVE MulByDigit(_, _, _)
MulByDigit(x, d, c) ==
    IF x = << >> THEN (IF c = 0 THEN << >> ELSE <<c>>)
    ELSE LET p == Head(x) * d + c
         IN  <<p % 256>> \o MulByDigit(Tail(x), d, p \div 256)

\* The mathematical product of two naturals.
RECURSIVE MulDigits(_, _)
MulDigits(x, y) ==
    IF y = << >> THEN << >>
    ELSE LET rest == MulDigits(x, Tail(y))
             shifted == IF rest = << >> THEN << >> ELSE <<0>> \o rest
         IN  Normalize(AddDigits(MulByDigit(x, Head(y), 0), shifted, 0))

\* d mod 256^k.
Trunc(d, k) == Normalize(SubSeq(d, 1, IF Len(d) < k THEN Len(d) ELSE k))

RECURSIVE LeqDigits(_, _)
LeqDigits(x, y) ==
    IF Len(x) # Len(y) THEN Len(x) < Len(y)
    ELSE IF x = << >> THEN TRUE
    ELSE IF x[Len(x)] # y[Len(y)] THEN x[Len(x)] < y[Len(y)]
    ELSE LeqDigits(SubSeq(x, 1, Len(x) - 1), SubSeq(y, 1, Len(y) - 1))

\* The value of a digit sequence below 256^3.
DigitsToNat(d) ==
    LET t == [i \in 1..3 |-> IF i <= Len(d) THEN d[i] ELSE 0]
    IN  t[1] + t[2] * 256 + t[3] * 65536

\* The low 32 bits of d, read as a two's-complement int.
Wrap32(d) ==
    LET t == [i \in 1..4 |-> IF i <= Len(d) THEN d[i] ELSE 0]
    IN  t[1] + t[2] * 256 + t[3] * 65536
        + (IF t[4] >= 128 THEN t[4] - 256 ELSE t[4]) * 16777216

\* Conversion of an int to size_t (sign extension to 64 bits).
SizeT(i) ==
    IF i >= 0 THEN NatToDigits(i)
    ELSE LET v == (i + 2147483647) + 1
             t == [k \in 1..4 |-> IF k <= Len(NatToDigits(v))
                                  THEN NatToDigits(v)[k] ELSE 0]
         IN  <<t[1], t[2], t[3], t[4] + 128, 255, 255, 255, 255>>

\* size_t multiplication by an element size: modulo 2^64.
SizeTMul(x, elem) == Trunc(MulDigits(x, NatToDigits(elem)), 8)

IntMax == NatToDigits(2147483647)

\* int * int.  Signed overflow is undefined: the stored int keeps the low 32
\* bits, and an expression that widens the product to size_t may see either
\* the wrapped int or the unwrapped product.
IntMul(x, y) == Wrap32(MulDigits(NatToDigits(x), NatToDigits(y)))

IntMulAsSizeT(x, y) ==
    LET exact == MulDigits(NatToDigits(x), NatToDigits(y))
    IN  IF LeqDigits(exact, IntMax) THEN {SizeT(Wrap32(exact))}
        ELSE {SizeT(Wrap32(exact)), Trunc(exact, 8)}

DeviceCapacity == <<0, 0, 0>> \o NatToDigits(DeviceGiB * 64)

\* ------------------------------------------------------------ device model
Addr == 1..7
\* Addresses of the beam code's device buffers, which the caller allocates
\* before init_model; cudaMalloc hands out the others.
CallerAddrs == {1, 2, 3}
CellVals == 0..MaxCellVal

\* A device range [p, p + bytes) is usable: empty, or inside a live allocation.
DevRangeOK(h, p, bytes) ==
    \/ bytes = << >>
    \/ /\ p # NULL
       /\ h[p].state = "live"
       /\ LeqDigits(bytes, h[p].bytes)

\* cudaMalloc: [ok, ptr, heap].  A failure leaves the pointer as it was (NULL);
\* a request of zero bytes succeeds and yields NULL.
cudaMalloc(h, bytes, inject) ==
    IF inject \/ ~LeqDigits(bytes, DeviceCapacity)
    THEN [ok |-> FALSE, ptr |-> NULL, heap |-> h]
    ELSE IF bytes = << >>
    THEN [ok |-> TRUE, ptr |-> NULL, heap |-> h]
    ELSE LET free == {q \in Addr \ CallerAddrs : h[q].state = "unused"}
             p == CHOOSE q \in free : \A r \in free : q <= r
         IN  [ok |-> TRUE, ptr |-> p,
              heap |-> [h EXCEPT ![p] = [state |-> "live", bytes |-> bytes,
                                         init |-> FALSE]]]

\* cudaMemcpy host-to-device of a table whose contents are not tracked:
\* [ok, heap]; a successful copy initialises the destination.
cudaMemcpyH2D(h, dst, bytes, inject) ==
    LET ok == ~inject /\ DevRangeOK(h, dst, bytes)
    IN  [ok |-> ok,
         heap |-> IF ok /\ bytes # << >>
                  THEN [h EXCEPT ![dst].init = TRUE] ELSE h]

\* A faulty variant of CopyCells: the source index does not advance.
CopyCellsNoStride(dst, src, n) ==
    [i \in 1..Len(dst) |-> IF i <= n /\ i <= Len(src) THEN src[1] ELSE dst[i]]

\* The first n cells of dst overwritten with the first n cells of src.
CopyCells(dst, src, n) ==
    [i \in 1..Len(dst) |-> IF i <= n /\ i <= Len(src) THEN src[i] ELSE dst[i]]

\* A faulty variant of MemsetCells: the byte count is short by one cell.
MemsetCellsShort(data, n) ==
    [i \in 1..Len(data) |-> IF i < n THEN 0 ELSE data[i]]

\* cudaMemset(ptr, 0.0, n cells): the value is converted to the byte 0.
MemsetCells(data, n) ==
    [i \in 1..Len(data) |-> IF i <= n THEN 0 ELSE data[i]]

\* cudaFree: [ok, heap, frees].  Freeing NULL is a successful no-op.
cudaFree(h, fr, p, inject) ==
    IF inject \/ (p # NULL /\ h[p].state # "live")
    THEN [ok |-> FALSE, heap |-> h, frees |-> fr]
    ELSE IF p = NULL THEN [ok |-> TRUE, heap |-> h, frees |-> fr]
    ELSE [ok |-> TRUE, heap |-> [h EXCEPT ![p].state = "freed"],
          frees |-> [fr EXCEPT ![p] = @ + 1]]

\* cudaSoftCheck(code) at call site `site`: the error is written to the
\* diagnostic stream and execution continues with the next statement.
cudaSoftCheck(ok, site) == IF ok THEN {} ELSE {site}

\* ------------------------------------------------------------- the inputs
\* (num_baselines, num_freqs): every pair whose product is at most MaxCells,
\* and three pairs whose product does not fit an int.
VisDims ==
    {d \in (0..MaxCells) \X (1..MaxCells) : d[1] * d[2] <= MaxCells}
    \cup {<<65536, 65536>>, <<641, 6700417>>, <<46341, 46341>>}
\* (visibility dimensions, (sbf_l, sbf_n), beam tables present)
Inputs ==
    {<<d, <<2, 3>>, TRUE>> : d \in VisDims}
    \cup {<<<<1, 1>>, <<65536, 65536>>, FALSE>>, <<<<0, 1>>, <<0, 3>>, FALSE>>}

\* Mathematical number of cells of the caller's host buffer.
DeclaredCells(nb, nf) == MulDigits(NatToDigits(nb), NatToDigits(nf))
\* The host cells whose contents are tracked: the first MaxCells at most.
HostWindow(nb, nf) ==
    IF LeqDigits(DeclaredCells(nb, nf), NatToDigits(MaxCells))
    THEN DigitsToNat(DeclaredCells(nb, nf)) ELSE MaxCells

NoAddresses ==
    [num_freqs |-> 0, num_vis |-> 0, num_tiles |-> 0, sbf_l |-> 0, sbf_n |-> 0,
     sbf_c |-> 0, sbf_dx |-> 0,
     d_uvws |-> NULL, d_freqs |-> NULL, d_shapelet_basis_values |-> NULL,
     d_fee_coeffs |-> NULL, num_fee_beam_coeffs |-> 0,
     num_unique_fee_tiles |-> 0, num_unique_fee_freqs |-> 0,
     d_beam_jones_map |-> NULL, d_beam_norm_jones |-> NULL,
     d_vis |-> NULL, host_vis |-> "none"]

NoSizes == [uvws |-> << >>, freqs |-> << >>, sbfs |-> << >>, vis |-> << >>]
NoOp == [op |-> "none", failed |-> {}, reported |-> {}, ret |-> "none"]

ZeroC == [x |-> 0, y |-> 0]
ZeroJones == [j00 |-> ZeroC, j01 |-> ZeroC, j10 |-> ZeroC, j11 |-> ZeroC]

\* The device heap before init_model: the caller's beam buffers, if any.
InitHeap(beam) ==
    [p \in Addr |->
       IF beam /\ p \in CallerAddrs
       THEN [state |-> "live", bytes |-> <<64>>, init |-> TRUE]
       ELSE [state |-> "unused", bytes |-> << >>, init |-> FALSE]]

Init ==
    /\ phase = "start"
    /\ \E in \in Inputs :
         LET d == in[1]
             s == in[2]
             beam == in[3]
         IN
         /\ \E v \in [1..HostWindow(d[1], d[2]) -> CellVals] :
              /\ host_vis = v
              /\ args = [num_baselines |-> d[1], num_freqs |-> d[2],
                         num_tiles |-> 3, sbf_l |-> s[1], sbf_n |-> s[2],
                         sbf_c |-> 5, sbf_dx |-> 1,
                         d_fee_coeffs |-> IF beam THEN 1 ELSE NULL,
                         num_fee_beam_coeffs |-> IF beam THEN 4 ELSE 0,
                         num_unique_fee_tiles |-> IF beam THEN 1 ELSE 0,
                         num_unique_fee_freqs |-> IF beam THEN 1 ELSE 0,
                         d_beam_jones_map |-> IF beam THEN 2 ELSE NULL,
                         d_beam_norm_jones |-> IF beam THEN 3 ELSE NULL,
                         vis |-> "vis", vis_data |-> v]
         /\ heap = InitHeap(beam)
    /\ a = NoAddresses
    /\ sizes = NoSizes
    /\ d_vis_data = << >>
    /\ frees = [p \in Addr |-> 0]
    /\ last = NoOp
    /\ prev = "none"
    /\ j1 = ZeroJones /\ j = ZeroJones /\ j2 = ZeroJones
    /\ beam_in = [j1 |-> ZeroJones, j |-> ZeroJones, j2 |-> ZeroJones]
    /\ beam_pc = "idle"

\* ------------------------------------------------------------- init_model
\* The Addresses value init_model returns.
Addresses(g, num_vis, d_uvws, d_freqs, d_sbf, d_vis) ==
    [num_freqs |-> g.num_freqs, num_vis |-> num_vis, num_tiles |-> g.num_tiles,
     sbf_l |-> g.sbf_l, sbf_n |-> g.sbf_n, sbf_c |-> g.sbf_c,
     sbf_dx |-> g.sbf_dx,
     d_uvws |-> d_uvws, d_freqs |-> d_freqs,
     d_shapelet_basis_values |-> d_sbf,
     d_fee_coeffs |-> g.d_fee_coeffs,
     num_fee_beam_coeffs |-> g.num_fee_beam_coeffs,
     num_unique_fee_tiles |-> g.num_unique_fee_tiles,
     num_unique_fee_freqs |-> g.num_unique_fee_freqs,
     d_beam_jones_map |-> g.d_beam_jones_map,
     d_beam_norm_jones |-> g.d_beam_norm_jones,
     d_vis |-> d_vis, host_vis |-> g.vis]

\* The whole of init_model for one choice of the failing device call (0: none;
\* 1..8: the eight cudaMalloc / cudaMemcpy calls in program order) and of the
\* values the two int products take when widened to size_t.
InitModelRun(h, g, fail, size_sbfs, size_vis) ==
    LET size_uvws  == SizeTMul(SizeT(g.num_baselines), SizeofUVW)
        m1 == cudaMalloc(h, size_uvws, fail = 1)
        c2 == cudaMemcpyH2D(m1.heap, m1.ptr, size_uvws, fail = 2)
        size_freqs == SizeTMul(SizeT(g.num_freqs), SizeofFLOAT)
        m3 == cudaMalloc(c2.heap, size_freqs, fail = 3)
        c4 == cudaMemcpyH2D(m3.heap, m3.ptr, size_freqs, fail = 4)
        m5 == cudaMalloc(c4.heap, size_sbfs, fail = 5)
        c6 == cudaMemcpyH2D(m5.heap, m5.ptr, size_sbfs, fail = 6)
        num_vis == IntMul(g.num_baselines, g.num_freqs)
        m7 == cudaMalloc(c6.heap, size_vis, fail = 7)
        c8 == cudaMemcpyH2D(m7.heap, m7.ptr, size_vis, fail = 8)
        cells == IF m7.ptr # NULL THEN DigitsToNat(size_vis) \div SizeofJonesF32
                 ELSE 0
    IN  [heap |-> c8.heap,
         a |-> Addresses(g, num_vis, m1.ptr, m3.ptr, m5.ptr, m7.ptr),
         sizes |-> [uvws |-> size_uvws, freqs |-> size_freqs,
                    sbfs |-> size_sbfs, vis |-> size_vis],
         cells |-> cells,
         copied |-> c8.ok,
         failed |-> {s \in 1..8 :
                       ~<<m1.ok, c2.ok, m3.ok, c4.ok, m5.ok, c6.ok, m7.ok, c8.ok>>[s]},
         reported |-> UNION {cudaSoftCheck(m1.ok, 1), cudaSoftCheck(c2.ok, 2),
                             cudaSoftCheck(m3.ok, 3), cudaSoftCheck(c4.ok, 4),
                             cudaSoftCheck(m5.ok, 5), cudaSoftCheck(c6.ok, 6),
                             cudaSoftCheck(m7.ok, 7), cudaSoftCheck(c8.ok, 8)}]

init_model ==
    /\ phase = "start"
    /\ \E fail \in 0..8 :
       \E size_sbfs \in {SizeTMul(p, SizeofFLOAT) :
                           p \in IntMulAsSizeT(args.sbf_l, args.sbf_n)} :
       \E size_vis \in {SizeTMul(p, SizeofJonesF32) :
                           p \in IntMulAsSizeT(args.num_baselines, args.num_freqs)} :
         LET r == InitModelRun(heap, args, fail, size_sbfs, size_vis)
         IN  /\ heap' = r.heap
             /\ a' = r.a
             /\ sizes' = [uvws |-> r.sizes.uvws, freqs |-> r.sizes.freqs,
                          sbfs |-> r.sizes.sbfs, vis |-> r.sizes.vis]
             \* a fresh allocation holds indeterminate values until the copy
             /\ \E garbage \in [1..r.cells -> CellVals] :
                  d_vis_data' = IF r.copied
                                THEN CopyCells(garbage, host_vis, r.cells)
                                ELSE garbage
             /\ last' = [op |-> "init_model", failed |-> r.failed,
                         reported |-> r.reported, ret |-> "Addresses"]
    /\ prev' = last.op
    /\ phase' = "live"
    /\ UNCHANGED <<args, host_vis, frees, beamvars>>

\* --------------------------------------------------------------- copy_vis
\* A faulty variant of copy_vis: the device buffer is zeroed once it has been read.
copy_vis_moving ==
    /\ phase = "live"
    /\ \E inject \in BOOLEAN :
         LET bytes == SizeTMul(SizeT(a.num_vis), SizeofJonesF32)
             ok == ~inject /\ DevRangeOK(heap, a.d_vis, bytes)
         IN  /\ host_vis' = IF ok THEN CopyCells(host_vis, d_vis_data, a.num_vis)
                            ELSE host_vis
             /\ d_vis_data' = IF ok THEN MemsetCells(d_vis_data, a.num_vis)
                              ELSE d_vis_data
             /\ last' = [op |-> "copy_vis", failed |-> IF ok THEN {} ELSE {1},
                         reported |-> cudaSoftCheck(ok, 1), ret |-> "void"]
    /\ prev' = last.op
    /\ UNCHANGED <<phase, args, a, sizes, heap, frees, beamvars>>

copy_vis ==
    /\ phase = "live"
    /\ \E inject \in BOOLEAN :
         LET bytes == SizeTMul(SizeT(a.num_vis), SizeofJonesF32)
             ok == ~inject /\ DevRangeOK(heap, a.d_vis, bytes)
         IN  /\ host_vis' = IF ok THEN CopyCells(host_vis, d_vis_data, a.num_vis)
                            ELSE host_vis
             /\ last' = [op |-> "copy_vis", failed |-> IF ok THEN {} ELSE {1},
                         reported |-> cudaSoftCheck(ok, 1), ret |-> "void"]
    /\ prev' = last.op
    /\ UNCHANGED <<phase, args, a, sizes, heap, d_vis_data, frees, beamvars>>

\* -------------------------------------------------------------- clear_vis
\* A faulty variant of clear_vis: the memset is aimed at the UVW buffer.
clear_vis_wrong_buffer ==
    /\ phase = "live"
    /\ \E inject \in BOOLEAN :
         LET bytes == SizeTMul(SizeT(a.num_vis), SizeofJonesF32)
             ok == ~inject /\ DevRangeOK(heap, a.d_uvws, bytes)
         IN  /\ heap' = IF ok /\ bytes # << >>
                        THEN [heap EXCEPT ![a.d_uvws].init = FALSE] ELSE heap
             /\ last' = [op |-> "clear_vis", failed |-> IF ok THEN {} ELSE {1},
                         reported |-> {}, ret |-> "void"]
    /\ prev' = last.op
    /\ UNCHANGED <<phase, args, a, sizes, d_vis_data, host_vis, frees, beamvars>>

\* The result of cudaMemset is not looked at.
clear_vis ==
    /\ phase = "live"
    /\ \E inject \in BOOLEAN :
         LET bytes == SizeTMul(SizeT(a.num_vis), SizeofJonesF32)
             ok == ~inject /\ DevRangeOK(heap, a.d_vis, bytes)
         IN  /\ d_vis_data' = IF ok THEN MemsetCells(d_vis_data, a.num_vis)
                              ELSE d_vis_data
             /\ last' = [op |-> "clear_vis", failed |-> IF ok THEN {} ELSE {1},
                         reported |-> {}, ret |-> "void"]
    /\ prev' = last.op
    /\ UNCHANGED <<phase, args, a, sizes, heap, host_vis, frees, beamvars>>

\* ---------------------------------------------------------------- destroy
\* A faulty variant of destroy_ptrs: the visibility buffer is not freed.
destroy_ptrs_no_vis(c) ==
    <<c.d_uvws, c.d_freqs, c.d_shapelet_basis_values>>

\* The pointers destroy hands to cudaFree, in program order.
destroy_ptrs(c) ==
    <<c.d_uvws, c.d_freqs, c.d_shapelet_basis_values, c.d_vis>>

RECURSIVE FreeAll(_, _, _, _, _)
FreeAll(h, fr, ptrs, k, fail) ==
    IF k > Len(ptrs)
    THEN [heap |-> h, frees |-> fr, failed |-> {}, reported |-> {}]
    ELSE LET f == cudaFree(h, fr, ptrs[k], fail = k)
             rest == FreeAll(f.heap, f.frees, ptrs, k + 1, fail)
         IN  [heap |-> rest.heap, frees |-> rest.frees,
              failed |-> (IF f.ok THEN {} ELSE {k}) \cup rest.failed,
              reported |-> cudaSoftCheck(f.ok, k) \cup rest.reported]

destroy ==
    /\ phase = "live"
    /\ \E fail \in 0..4 :
         LET r == FreeAll(heap, frees, destroy_ptrs(a), 1, fail)
         IN  /\ heap' = r.heap
             /\ frees' = r.frees
             /\ d_vis_data' = IF a.d_vis # NULL /\ r.heap[a.d_vis].state = "freed"
                              THEN << >> ELSE d_vis_data
             /\ last' = [op |-> "destroy", failed |-> r.failed,
                         reported |-> r.reported, ret |-> "void"]
    /\ prev' = last.op
    /\ phase' = "destroyed"
    /\ UNCHANGED <<args, a, sizes, host_vis, beamvars>>

Next == init_model \/ copy_vis \/ clear_vis \/ destroy

Spec == Init /\ [][Next]_vars

\* ------------------------------------------------------------- apply_beam
\* COMPLEX values are records [x, y] (real, imaginary part) with integer parts.
MAKE_COMPLEX(x, y) == [x |-> x, y |-> y]
\* operator+(COMPLEX, COMPLEX)
CAdd(c, d) == MAKE_COMPLEX(c.x + d.x, c.y + d.y)
\* operator*(COMPLEX, COMPLEX)
CMul(c, d) == MAKE_COMPLEX(c.x * d.x - c.y * d.y, c.x * d.y + c.y * d.x)
CUCONJ(c) == MAKE_COMPLEX(c.x, 0 - c.y)

\* A faulty variant of apply_beam: J2 is conjugated but not transposed.
apply_beam_no_transpose(b1, b, b2) ==
    LET temp == [j00 |-> CAdd(CMul(b1.j00, b.j00), CMul(b1.j01, b.j10)),
                 j01 |-> CAdd(CMul(b1.j00, b.j01), CMul(b1.j01, b.j11)),
                 j10 |-> CAdd(CMul(b1.j10, b.j00), CMul(b1.j11, b.j10)),
                 j11 |-> CAdd(CMul(b1.j10, b.j01), CMul(b1.j11, b.j11))]
        j2h  == [j00 |-> CUCONJ(b2.j00),
                 j01 |-> CUCONJ(b2.j01),
                 j10 |-> CUCONJ(b2.j10),
                 j11 |-> CUCONJ(b2.j11)]
    IN  [j00 |-> CAdd(CMul(temp.j00, j2h.j00), CMul(temp.j01, j2h.j10)),
         j01 |-> CAdd(CMul(temp.j00, j2h.j01), CMul(temp.j01, j2h.j11)),
         j10 |-> CAdd(CMul(temp.j10, j2h.j00), CMul(temp.j11, j2h.j10)),
         j11 |-> CAdd(CMul(temp.j10, j2h.j01), CMul(temp.j11, j2h.j11))]

\* The value apply_beam leaves in *j, given *j1, *j and *j2.
apply_beam(b1, b, b2) ==
    LET temp == [j00 |-> CAdd(CMul(b1.j00, b.j00), CMul(b1.j01, b.j10)),
                 j01 |-> CAdd(CMul(b1.j00, b.j01), CMul(b1.j01, b.j11)),
                 j10 |-> CAdd(CMul(b1.j10, b.j00), CMul(b1.j11, b.j10)),
                 j11 |-> CAdd(CMul(b1.j10, b.j01), CMul(b1.j11, b.j11))]
        j2h  == [j00 |-> CUCONJ(b2.j00),
                 j01 |-> CUCONJ(b2.j10),
                 j10 |-> CUCONJ(b2.j01),
                 j11 |-> CUCONJ(b2.j11)]
    IN  [j00 |-> CAdd(CMul(temp.j00, j2h.j00), CMul(temp.j01, j2h.j10)),
         j01 |-> CAdd(CMul(temp.j00, j2h.j01), CMul(temp.j01, j2h.j11)),
         j10 |-> CAdd(CMul(temp.j10, j2h.j00), CMul(temp.j11, j2h.j10)),
         j11 |-> CAdd(CMul(temp.j10, j2h.j01), CMul(temp.j11, j2h.j11))]

\* The probe matrices: every matrix with one entry s and the rest zero, for s
\* with parts in 0..MaxC; the identity; and two dense matrices.
Scalars == {MAKE_COMPLEX(x, y) : x \in 0..MaxC, y \in 0..MaxC}
IdentityJones ==
    [j00 |-> MAKE_COMPLEX(1, 0), j01 |-> ZeroC,
     j10 |-> ZeroC, j11 |-> MAKE_COMPLEX(1, 0)]
DenseJones ==
    {[j00 |-> MAKE_COMPLEX(1, 2), j01 |-> MAKE_COMPLEX(0 - 3, 1),
      j10 |-> MAKE_COMPLEX(2, 0 - 1), j11 |-> MAKE_COMPLEX(1, 1)],
     [j00 |-> MAKE_COMPLEX(0, 1), j01 |-> MAKE_COMPLEX(2, 3),
      j10 |-> MAKE_COMPLEX(0 - 1, 0 - 2), j11 |-> MAKE_COMPLEX(3, 0 - 1)]}
ProbeJones ==
    {[ZeroJones EXCEPT ![f] = s] : f \in {"j00", "j01", "j10", "j11"}, s \in Scalars}
    \cup {IdentityJones} \cup DenseJones

InitBeam ==
    /\ j1 \in ProbeJones /\ j \in ProbeJones /\ j2 \in ProbeJones
    /\ beam_in = [j1 |-> j1, j |-> j, j2 |-> j2]
    /\ beam_pc = "call"
    /\ phase = "start"
    /\ args = << >>
    /\ a = NoAddresses
    /\ sizes = NoSizes
    /\ heap = InitHeap(FALSE)
    /\ d_vis_data = << >>
    /\ host_vis = << >>
    /\ frees = [p \in Addr |-> 0]
    /\ last = NoOp
    /\ prev = "none"

ApplyBeam ==
    /\ beam_pc = "call"
    /\ j' = apply_beam(j1, j, j2)
    /\ beam_pc' = "done"
    /\ UNCHANGED <<j1, j2, beam_in, lifevars>>

NextBeam == ApplyBeam

SpecBeam == InitBeam /\ [][NextBeam]_vars

\* ================================================================= claims
Created == Addr \ CallerAddrs
VisBytes == SizeTMul(SizeT(a.num_vis), SizeofJonesF32)
AllZero(data, n) == \A i \in 1..n : i <= Len(data) => data[i] = 0
SomeNonZero(data) == \E i \in 1..Len(data) : data[i] # 0
CopyStep == phase = "live" /\ last'.op = "copy_vis"
ClearStep == phase = "live" /\ last'.op = "clear_vis"

\* C1: when init_model's host-to-device copy of the visibilities succeeded and
\* the copy_vis that follows it at once succeeds, the host buffer holds, in
\* every cell, the values it held before init_model.
C1_RoundTrip ==
    [][(/\ last.op = "init_model"
        /\ 8 \notin last.failed
        /\ CopyStep
        /\ last'.failed = {})
       => host_vis' = args.vis_data]_vars

C1_Witness ==
    /\ last.op = "copy_vis" /\ prev = "init_model" /\ last.failed = {}
    /\ a.num_vis = MaxCells
    /\ a.d_vis # NULL /\ heap[a.d_vis].init
    /\ SomeNonZero(args.vis_data)
    /\ host_vis = args.vis_data

\* C2: a clear_vis whose cudaMemset succeeds leaves every one of the num_vis
\* cells of the device visibility buffer zero; a successful copy_vis right
\* after it leaves those num_vis host cells zero; and a second successful
\* clear_vis changes nothing of the context, the device or the host.
C2_ClearZeroes ==
    [][/\ (ClearStep /\ last'.failed = {})
          => /\ Len(d_vis_data') = Len(d_vis_data)
             /\ AllZero(d_vis_data', Len(d_vis_data'))
             /\ (a.num_vis > 0 => Len(d_vis_data') = a.num_vis)
       /\ (last.op = "clear_vis" /\ last.failed = {} /\ CopyStep /\ last'.failed = {})
          => AllZero(host_vis', a.num_vis)
       /\ (last.op = "clear_vis" /\ last.failed = {} /\ ClearStep /\ last'.failed = {})
          => /\ d_vis_data' = d_vis_data
             /\ UNCHANGED <<a, sizes, heap, host_vis, frees>>]_vars

C2_Witness ==
    /\ last.op = "copy_vis" /\ prev = "clear_vis" /\ last.failed = {}
    /\ a.num_vis = MaxCells
    /\ \A i \in 1..MaxCells : args.vis_data[i] # 0
    /\ AllZero(host_vis, MaxCells) /\ Len(host_vis) = MaxCells
    /\ AllZero(d_vis_data, MaxCells)

\* The buffers init_model allocated before its device call number s (the
\* calls are numbered 1..8 in program order; the odd ones allocate).
AllocatedBefore(s) ==
    ({a.d_uvws : k \in {1} \cap 1..(s - 1)}
     \cup {a.d_freqs : k \in {3} \cap 1..(s - 1)}
     \cup {a.d_shapelet_basis_values : k \in {5} \cap 1..(s - 1)}
     \cup {a.d_vis : k \in {7} \cap 1..(s - 1)}) \ {NULL}

\* C3 (the claim as stated): when a device call of init_model failed, every
\* device buffer init_model had allocated before that call has been released
\* by the time init_model returns.
C3_NoLeakOnFailure ==
    last.op = "init_model"
    => \A s \in last.failed : \A p \in AllocatedBefore(s) : heap[p].state # "live"

\* C4 (the claim as stated): an init_model in which a device call failed
\* returns something other than what the same call returns when every device
\* call succeeds, and a copy_vis whose copy failed returns something other
\* than what a successful copy_vis returns.
C4_FailureSurfaced ==
    /\ (last.op = "init_model" /\ last.failed # {})
       => a # InitModelRun(InitHeap(args.d_fee_coeffs # NULL), args,
                           0, sizes.sbfs, sizes.vis).a
    /\ (last.op = "copy_vis" /\ last.failed # {})
       => last.ret # "void"

\* C5: after destroy, when none of its cudaFree calls failed, no device buffer
\* that init_model allocated is still allocated, each of them was freed
\* exactly once, and the caller's beam buffers were not freed; and in every
\* state no buffer has been freed twice.
C5_DestroyFreesOnce ==
    /\ \A p \in Addr : frees[p] <= 1
    /\ (phase = "destroyed" /\ last.failed = {})
       => /\ \A p \in Created :
               /\ heap[p].state # "live"
               /\ (heap[p].state = "freed") = (frees[p] = 1)
          /\ \A p \in {a.d_uvws, a.d_freqs, a.d_shapelet_basis_values, a.d_vis}
                      \ {NULL} :
               heap[p].state = "freed" /\ frees[p] = 1
          /\ \A p \in CallerAddrs :
               frees[p] = 0 /\ heap[p] = InitHeap(args.d_fee_coeffs # NULL)[p]

C5_Witness ==
    /\ phase = "destroyed" /\ last.failed = {}
    /\ prev \in {"copy_vis", "clear_vis"}
    /\ Cardinality({a.d_uvws, a.d_freqs, a.d_shapelet_basis_values, a.d_vis}
                   \ {NULL}) = 4
    /\ \A p \in Created : frees[p] = 1

\* C6: copy_vis changes neither the device visibility buffer nor any field of
\* the context, allocates and frees nothing, and targets the host buffer
\* given to init_model; two successful copy_vis in a row leave the same host
\* buffer.
C6_ReadBackFrame ==
    [][CopyStep
       => /\ d_vis_data' = d_vis_data
          /\ a' = a
          /\ heap' = heap /\ frees' = frees /\ sizes' = sizes
          /\ a.host_vis = args.vis
          /\ (last.op = "copy_vis" /\ last.failed = {} /\ last'.failed = {})
             => host_vis' = host_vis]_vars

C6_Witness ==
    /\ last.op = "copy_vis" /\ prev = "copy_vis" /\ last.failed = {}
    /\ a.num_vis = MaxCells
    /\ host_vis = d_vis_data
    /\ SomeNonZero(host_vis)

\* C7 (the claim as stated): while the context is live its counts equal the
\* values given to init_model, num_vis equals num_baselines * num_freqs, and
\* the visibility buffer is one live allocation of the size init_model asked
\* for.
C7_CountsFixed ==
    phase = "live"
    => /\ a.num_freqs = args.num_freqs
       /\ a.num_tiles = args.num_tiles
       /\ a.sbf_l = args.sbf_l
       /\ a.sbf_n = args.sbf_n
       /\ SizeT(a.num_vis) = DeclaredCells(args.num_baselines, args.num_freqs)
       /\ (a.d_vis # NULL
           => heap[a.d_vis].state = "live" /\ heap[a.d_vis].bytes = sizes.vis)

\* Reference 2x2 complex matrix algebra, by row and column index.
RefCMul(c, d) == [x |-> c.x * d.x - c.y * d.y, y |-> c.x * d.y + c.y * d.x]
RefCAdd(c, d) == [x |-> c.x + d.x, y |-> c.y + d.y]
ToMat(m) == <<<<m.j00, m.j01>>, <<m.j10, m.j11>>>>
RefMatMul(A, B) ==
    [r \in 1..2 |-> [c \in 1..2 |->
        RefCAdd(RefCMul(A[r][1], B[1][c]), RefCMul(A[r][2], B[2][c]))]]
RefConjTranspose(A) ==
    [r \in 1..2 |-> [c \in 1..2 |-> [x |-> A[c][r].x, y |-> 0 - A[c][r].y]]]

\* C8: apply_beam leaves in j the product J1 * J * J2^H of the original
\* matrices, leaves j1 and j2 as they were, and with J1 = J2 = identity leaves
\* j as it was.
C8_ApplyBeam ==
    beam_pc = "done"
    => /\ ToMat(j) = RefMatMul(RefMatMul(ToMat(beam_in.j1), ToMat(beam_in.j)),
                               RefConjTranspose(ToMat(beam_in.j2)))
       /\ j1 = beam_in.j1 /\ j2 = beam_in.j2
       /\ (beam_in.j1 = IdentityJones /\ beam_in.j2 = IdentityJones)
          => j = beam_in.j

C8_Witness ==
    /\ beam_pc = "done"
    /\ beam_in.j1 \in DenseJones /\ beam_in.j \in DenseJones
    /\ beam_in.j2 \in DenseJones /\ beam_in.j1 # beam_in.j2
    /\ j # beam_in.j
    /\ j.j01 # j.j10

\* C9: clear_vis and copy_vis leave every device allocation other than the
\* contents of the visibility buffer as it was (state, size, initialised
\* contents) and leave every address in the context as it was; clear_vis
\* leaves the host buffer and copy_vis the device visibility buffer as it was.
C9_OnlyVisWritten ==
    [][(ClearStep \/ CopyStep)
       => /\ \A p \in Addr : heap'[p] = heap[p]
          /\ a'.d_uvws = a.d_uvws /\ a'.d_freqs = a.d_freqs
          /\ a'.d_shapelet_basis_values = a.d_shapelet_basis_values
          /\ a'.d_fee_coeffs = a.d_fee_coeffs
          /\ a'.d_beam_jones_map = a.d_beam_jones_map
          /\ a'.d_beam_norm_jones = a.d_beam_norm_jones
          /\ a'.d_vis = a.d_vis
          /\ (ClearStep => host_vis' = host_vis)
          /\ (CopyStep => d_vis_data' = d_vis_data)]_vars

C9_Witness ==
    /\ last.op = "clear_vis" /\ prev = "copy_vis" /\ last.failed = {}
    /\ \A p \in {a.d_uvws, a.d_freqs, a.d_shapelet_basis_values} :
         p # NULL /\ heap[p].state = "live" /\ heap[p].init
    /\ \A p \in CallerAddrs : heap[p].state = "live"
    /\ SomeNonZero(host_vis) /\ AllZero(d_vis_data, MaxCells)
    /\ Len(d_vis_data) = MaxCells

\* C10 (the claim as stated): init_model asks for exactly
\* num_baselines * num_freqs * sizeof(JonesF32) bytes for the visibilities and
\* sbf_l * sbf_n * sizeof(FLOAT) bytes for the shapelet basis table, the
\* products being the mathematical ones, and clear_vis and copy_vis work on
\* that many bytes.
C10_ExactSizes ==
    phase = "live"
    => /\ sizes.vis = MulDigits(DeclaredCells(args.num_baselines, args.num_freqs),
                                NatToDigits(SizeofJonesF32))
       /\ sizes.sbfs = MulDigits(DeclaredCells(args.sbf_l, args.sbf_n),
                                 NatToDigits(SizeofFLOAT))
       /\ VisBytes = sizes.vis

====
